---------------------------- MODULE Spec2Model ----------------------------
(***************************************************************************)
(* Model of hooks/agent-performance-monitor.py: the metrics recorder.      *)
(*                                                                         *)
(* Text is a sequence of one-character strings.  Time is counted in hours  *)
(* since local midnight of day 0; a calendar date is the day number.       *)
(* Python values that the code may meet with the wrong type (the loaded    *)
(* JSON document, the event payload, agents_used) carry a pytype tag.      *)
(* An operation that can raise returns a record with an exc field:         *)
(* "none" when it returned normally, the exception's class otherwise.      *)
(***************************************************************************)
EXTENDS Integers, Sequences, FiniteSets, TLC

(***************************************************************************)
(* Program constants.                                                      *)
(***************************************************************************)
TASK_TRUNCATE == 100

LENGTH_THRESHOLD == 200

COMPLEXITY_CAP == 5

BASE_COMPLEXITY == 1

WINDOW_HOURS == 24

HOURS_PER_DAY == 24

HIGH_FREQUENCY_CALLS == 10

SIMPLE_COMPLEXITY == 2

PATTERN_MIN_CALLS == 5

PATTERN_TAIL == 5

PATTERN_DISTINCT == 3

(***************************************************************************)
(* Bounds of the model.                                                    *)
(***************************************************************************)
MaxPieces == 3

MaxRuns == 2

MaxClock == 26

MaxRecent == 6

(***************************************************************************)
(* Generic helpers.                                                        *)
(***************************************************************************)
Min(a, b) == IF a < b THEN a ELSE b

Max(a, b) == IF a > b THEN a ELSE b

Range(s) == {s[i] : i \in 1..Len(s)}

RECURSIVE SumSeq(_)
SumSeq(s) == IF s = <<>> THEN 0 ELSE Head(s) + SumSeq(Tail(s))

RECURSIVE Gcd(_, _)
Gcd(a, b) == IF b = 0 THEN a ELSE Gcd(b, a % b)

(***************************************************************************)
(* str.lower() and str.split() on ASCII text.                              *)
(***************************************************************************)
UpperChars ==
  <<"A","B","C","D","E","F","G","H","I","J","K","L","M",
    "N","O","P","Q","R","S","T","U","V","W","X","Y","Z">>

LowerChars ==
  <<"a","b","c","d","e","f","g","h","i","j","k","l","m",
    "n","o","p","q","r","s","t","u","v","w","x","y","z">>

Whitespace == {" ", "\t", "\n"}

\* the lower-case letter of every upper-case letter
ToLower ==
  [c \in Range(UpperChars) |->
     LowerChars[CHOOSE i \in 1..Len(UpperChars) : UpperChars[i] = c]]

LowerChar(c) == IF c \in DOMAIN ToLower THEN ToLower[c] ELSE c

lower(s) == [i \in 1..Len(s) |-> LowerChar(s[i])]

\* str.split() without arguments: the maximal runs of non-whitespace
\* characters, in order; runs of whitespace separate and are dropped.
WordStarts(s) ==
  {i \in 1..Len(s) : s[i] \notin Whitespace /\ (i = 1 \/ s[i - 1] \in Whitespace)}

WordEnds(s) ==
  {j \in 1..Len(s) : s[j] \notin Whitespace /\ (j = Len(s) \/ s[j + 1] \in Whitespace)}

\* the k-th smallest element of a finite set of integers
Nth(S, k) == CHOOSE x \in S : Cardinality({y \in S : y < x}) = k - 1

split(s) ==
  LET starts == WordStarts(s)
      ends == WordEnds(s)
  IN  [k \in 1..Cardinality(starts) |-> SubSeq(s, Nth(starts, k), Nth(ends, k))]

\* s[:n]
Truncate(s, n) == SubSeq(s, 1, Min(Len(s), n))

(***************************************************************************)
(* estimate_task_complexity                                                *)
(***************************************************************************)
complexity_keywords ==
  { [word |-> <<"i","m","p","l","e","m","e","n","t">>, weight |-> 3],
    [word |-> <<"c","r","e","a","t","e">>, weight |-> 3],
    [word |-> <<"b","u","i","l","d">>, weight |-> 4],
    [word |-> <<"d","e","s","i","g","n">>, weight |-> 4],
    [word |-> <<"r","e","f","a","c","t","o","r">>, weight |-> 3],
    [word |-> <<"m","i","g","r","a","t","e">>, weight |-> 4],
    [word |-> <<"i","n","t","e","g","r","a","t","e">>, weight |-> 4],
    [word |-> <<"f","i","x">>, weight |-> 2],
    [word |-> <<"u","p","d","a","t","e">>, weight |-> 2],
    [word |-> <<"m","o","d","i","f","y">>, weight |-> 2],
    [word |-> <<"a","n","a","l","y","z","e">>, weight |-> 2],
    [word |-> <<"r","e","v","i","e","w">>, weight |-> 2],
    [word |-> <<"d","o","c","u","m","e","n","t">>, weight |-> 2],
    [word |-> <<"t","e","s","t">>, weight |-> 2],
    [word |-> <<"d","e","b","u","g">>, weight |-> 3],
    [word |-> <<"o","p","t","i","m","i","z","e">>, weight |-> 3] }

InKeywords(w) == \E k \in complexity_keywords : k.word = w

KeywordWeight(w) == (CHOOSE k \in complexity_keywords : k.word = w).weight

\* the loop over words: base_complexity = max(base_complexity, weight)
RECURSIVE ScanWords(_, _)
ScanWords(words, base) ==
  IF words = <<>> THEN base
  ELSE ScanWords(Tail(words),
                 IF InKeywords(Head(words))
                 THEN Max(base, KeywordWeight(Head(words)))
                 ELSE base)

\* if len(task_description) > 200: base_complexity += 1; return min(.., 5)
AdjustForLength(base_complexity, task_description) ==
  Min(IF Len(task_description) > LENGTH_THRESHOLD
      THEN base_complexity + 1 ELSE base_complexity,
      COMPLEXITY_CAP)

\* A slip that forgets .lower(): keywords match in lower case only.
estimate_task_complexity_case_sensitive(task_description) ==
  AdjustForLength(ScanWords(split(task_description), BASE_COMPLEXITY), task_description)

estimate_task_complexity(task_description) ==
  AdjustForLength(ScanWords(split(lower(task_description)), BASE_COMPLEXITY),
                  task_description)

(***************************************************************************)
(* Python values of the metrics store.                                     *)
(***************************************************************************)
AgentNames == {"agentX", "unknown"}

EmptyDict == [k \in {} |-> 0]

\* d[k] = v
DictSet(d, k, v) == [x \in DOMAIN d \cup {k} |-> IF x = k THEN v ELSE d[x]]

\* A number as sum / len leaves it: a fraction in lowest terms.
Number(n, d) == LET g == Gcd(n, d) IN [num |-> n \div g, den |-> d \div g]

Zero == Number(0, 1)

LessThan(q, n) == q.num < n * q.den

\* datetime.isoformat() writes the date and the time of day;
\* datetime.fromisoformat() reads them back.
isoformat(t) == [date |-> t \div HOURS_PER_DAY, hour |-> t % HOURS_PER_DAY]

fromisoformat(s) == s.date * HOURS_PER_DAY + s.hour

\* datetime.now().strftime("%Y-%m-%d")
strftime_date(t) == t \div HOURS_PER_DAY

PyList(items) == [pytype |-> "list", items |-> items]

PySet == [pytype |-> "set", items |-> <<>>]

NewAgentStats == [total_calls |-> 0, recent_calls |-> <<>>, avg_complexity |-> Zero]

NewDailyStats == [total_calls |-> 0, agents_used |-> PySet, parallel_sessions |-> 0]

StoreKeys == {"agents", "daily_stats", "last_cleanup"}

PyDict(keys, agents, daily_stats, last_cleanup) ==
  [pytype |-> "dict", keys |-> keys, agents |-> agents,
   daily_stats |-> daily_stats, last_cleanup |-> last_cleanup]

\* the JSON document [] : parseable, not an object
JsonList == [pytype |-> "list", keys |-> {}, agents |-> EmptyDict,
             daily_stats |-> EmptyDict, last_cleanup |-> isoformat(0)]

(***************************************************************************)
(* The store file.  kind is "missing", "unreadable" (no permission),       *)
(* "garbage" (not JSON), "truncated" (opened for writing, nothing or only  *)
(* a part of the document written) or "json" (doc is the parsed document). *)
(***************************************************************************)
File(kind) == [kind |-> kind, doc |-> JsonList]

JsonFile(doc) == [kind |-> "json", doc |-> doc]

\* load_metrics: any failure to open or parse is swallowed and the default
\* store returned; a parsed document is returned whatever its shape.
load_metrics(f, now) ==
  IF f.kind = "json"
  THEN f.doc
  ELSE PyDict(StoreKeys, EmptyDict, EmptyDict, isoformat(now))

\* json.dump raises TypeError on a set.
Serializable(metrics) ==
  \A d \in DOMAIN metrics.daily_stats :
     metrics.daily_stats[d].agents_used.pytype = "list"

\* open(METRICS_FILE, 'w'): truncates the file; raises without permission.
save_open(f) ==
  IF f.kind = "unreadable"
  THEN [exc |-> "PermissionError", file |-> f]
  ELSE [exc |-> "none", file |-> File("truncated")]

\* json.dump(metrics, f) and the close of the file, on a file this process
\* truncated and nobody wrote since.
save_dump(f, metrics) ==
  IF Serializable(metrics)
  THEN [exc |-> "none", file |-> JsonFile(metrics)]
  ELSE [exc |-> "TypeError", file |-> File("truncated")]

FailedToSave == "Failed to save metrics"

Saved(result) ==
  [file |-> result.file,
   stderr |-> IF result.exc # "none" THEN <<FailedToSave>> ELSE <<>>]

DumpOpened(opened, metrics) ==
  IF opened.exc # "none" THEN opened ELSE save_dump(opened.file, metrics)

\* save_metrics: every exception is caught and reported on stderr.
save_metrics(f, metrics) == Saved(DumpOpened(save_open(f), metrics))

(***************************************************************************)
(* record_agent_invocation                                                 *)
(***************************************************************************)
\* list(set(items)): the distinct items, in the order the set iterates,
\* which the caller cannot choose; order is a listing of all names.
ListOfSet(items, order) ==
  LET S == Range(items)
      keep == {i \in 1..Len(order) : order[i] \in S}
  IN  [k \in 1..Cardinality(keep) |-> order[Nth(keep, k)]]

Orders == {o \in [1..Cardinality(AgentNames) -> AgentNames] : Range(o) = AgentNames}

CallRecord(timestamp, task_description) ==
  [timestamp |-> isoformat(timestamp),
   task |-> Truncate(task_description, TASK_TRUNCATE),
   complexity |-> estimate_task_complexity(task_description)]

\* A slip that keeps a call made exactly 24 hours ago.
PruneRecent_inclusive(recent_calls, cutoff) ==
  SelectSeq(recent_calls, LAMBDA call : fromisoformat(call.timestamp) >= cutoff)

\* [call for call in recent_calls if fromisoformat(call["timestamp"]) > cutoff]
PruneRecent(recent_calls, cutoff) ==
  SelectSeq(recent_calls, LAMBDA call : fromisoformat(call.timestamp) > cutoff)

Complexities(recent_calls) == [i \in 1..Len(recent_calls) |-> recent_calls[i].complexity]

\* sum(complexities) / len(complexities) when there are recent calls;
\* the stored value is left as it is otherwise.
AverageComplexity(old, recent_calls) ==
  IF recent_calls # <<>>
  THEN Number(SumSeq(Complexities(recent_calls)), Len(recent_calls))
  ELSE old

Raised(exc, metrics) == [exc |-> exc, metrics |-> metrics]

\* if agent_name not in metrics["agents"]: metrics["agents"][agent_name] = {...}
EnsureAgent(metrics, agent_name) ==
  IF agent_name \in DOMAIN metrics.agents
  THEN metrics
  ELSE [metrics EXCEPT !.agents = DictSet(@, agent_name, NewAgentStats)]

\* if today not in metrics["daily_stats"]: metrics["daily_stats"][today] = {...}
EnsureDay(metrics, date) ==
  IF date \in DOMAIN metrics.daily_stats
  THEN metrics
  ELSE [metrics EXCEPT !.daily_stats = DictSet(@, date, NewDailyStats)]

\* total_calls += 1, the append to recent_calls, and the pruning
RecordCall(metrics, agent_name, call, cutoff) ==
  [metrics EXCEPT !.agents[agent_name].total_calls = @ + 1,
                  !.agents[agent_name].recent_calls = PruneRecent(Append(@, call), cutoff)]

\* daily["total_calls"] += 1
CountDay(metrics, date) ==
  [metrics EXCEPT !.daily_stats[date].total_calls = @ + 1]

\* daily["agents_used"] = list(set(daily.get("agents_used", []) + [agent_name]))
UseAgent(metrics, date, agent_name, order) ==
  [metrics EXCEPT !.daily_stats[date].agents_used =
                     PyList(ListOfSet(Append(@.items, agent_name), order))]

\* if agent_stats["recent_calls"]: agent_stats["avg_complexity"] = sum / len
Average(metrics, agent_name) ==
  [metrics EXCEPT !.agents[agent_name] =
     [@ EXCEPT !.avg_complexity = AverageComplexity(@, metrics.agents[agent_name].recent_calls)]]

\* set() + [agent_name] raises TypeError
UpdateDay(metrics, date, agent_name, order) ==
  IF metrics.daily_stats[date].agents_used.pytype # "list"
  THEN Raised("TypeError", metrics)
  ELSE Raised("none", Average(UseAgent(metrics, date, agent_name, order), agent_name))

UpdateAgent(metrics, agent_name, call, date, cutoff, order) ==
  IF "daily_stats" \notin metrics.keys
  THEN Raised("KeyError", metrics)
  ELSE UpdateDay(CountDay(RecordCall(EnsureDay(metrics, date), agent_name, call, cutoff),
                          date),
                 date, agent_name, order)

\* The body of record_agent_invocation between load_metrics and
\* save_metrics.  today, timestamp and now are the three readings of the
\* clock, in program order.
UpdateMetrics(metrics, agent_name, task_description, today, timestamp, now, order) ==
  IF metrics.pytype # "dict" THEN Raised("TypeError", metrics)
  ELSE IF "agents" \notin metrics.keys THEN Raised("KeyError", metrics)
  ELSE UpdateAgent(EnsureAgent(metrics, agent_name), agent_name,
                   CallRecord(timestamp, task_description),
                   strftime_date(today), now - WINDOW_HOURS, order)

\* What the caller holds when the call raised instead of returning.
NoMetrics == JsonList

Returned(metrics, saved) ==
  [exc |-> "none", metrics |-> metrics, file |-> saved.file, stderr |-> saved.stderr]

SaveUpdated(f, upd) ==
  IF upd.exc # "none"
  THEN [exc |-> upd.exc, metrics |-> NoMetrics, file |-> f, stderr |-> <<>>]
  ELSE Returned(upd.metrics, save_metrics(f, upd.metrics))

\* exc is "none" when the call returned metrics; file is the store file
\* after the call, stderr what the call printed.
record_agent_invocation(f, agent_name, task_description, today, timestamp, now, order) ==
  SaveUpdated(f, UpdateMetrics(load_metrics(f, today), agent_name, task_description,
                               today, timestamp, now, order))

(***************************************************************************)
(* suggest_optimizations                                                   *)
(***************************************************************************)
CombineSimpleTasks == "Consider combining simple tasks to reduce overhead"

RepetitiveTasks == "Detected repetitive tasks - consider batch processing"

\* recent_calls[-5:]
LastCalls(recent_calls, n) ==
  SubSeq(recent_calls, Max(1, Len(recent_calls) - n + 1), Len(recent_calls))

\* A slip that looks for a pattern from five recent calls on.
suggest_optimizations_from_five(metrics, agent_name) ==
  LET agent_stats == IF agent_name \in DOMAIN metrics.agents
                     THEN metrics.agents[agent_name]
                     ELSE NewAgentStats
      high == IF /\ agent_stats.total_calls > HIGH_FREQUENCY_CALLS
                 /\ LessThan(agent_stats.avg_complexity, SIMPLE_COMPLEXITY)
              THEN <<CombineSimpleTasks>> ELSE <<>>
      recent_calls == agent_stats.recent_calls
      recent_tasks == {call.task : call \in Range(LastCalls(recent_calls, PATTERN_TAIL))}
      pattern == IF /\ Len(recent_calls) >= PATTERN_MIN_CALLS
                    /\ Cardinality(recent_tasks) < PATTERN_DISTINCT
                 THEN <<RepetitiveTasks>> ELSE <<>>
  IN  high \o pattern

suggest_optimizations(metrics, agent_name) ==
  LET agent_stats == IF agent_name \in DOMAIN metrics.agents
                     THEN metrics.agents[agent_name]
                     ELSE NewAgentStats
      high == IF /\ agent_stats.total_calls > HIGH_FREQUENCY_CALLS
                 /\ LessThan(agent_stats.avg_complexity, SIMPLE_COMPLEXITY)
              THEN <<CombineSimpleTasks>> ELSE <<>>
      recent_calls == agent_stats.recent_calls
      recent_tasks == {call.task : call \in Range(LastCalls(recent_calls, PATTERN_TAIL))}
      pattern == IF /\ Len(recent_calls) > PATTERN_MIN_CALLS
                    /\ Cardinality(recent_tasks) < PATTERN_DISTINCT
                 THEN <<RepetitiveTasks>> ELSE <<>>
  IN  high \o pattern

(***************************************************************************)
(* Main execution block: one run of the process on one event payload.      *)
(***************************************************************************)
\* A payload: json is "invalid" (not JSON), "list" (JSON, not an object) or
\* "dict"; tool_name and subagent_type are a string or "absent"; tool_input
\* is "absent", "list" (present, not an object) or "dict"; prompt is a text
\* when has_prompt.
Payload(json, tool_name, tool_input, subagent_type, has_prompt, prompt) ==
  [json |-> json, tool_name |-> tool_name, tool_input |-> tool_input,
   subagent_type |-> subagent_type, has_prompt |-> has_prompt, prompt |-> prompt]

\* The builtin exception classes that derive from Exception.
ExceptionClasses ==
  {"JSONDecodeError", "AttributeError", "TypeError", "KeyError", "PermissionError"}

RecordingLine == "Recording invocation..."

AgentCallsLine == "Agent calls"

MonitoringError == "Monitoring error"

Traceback == "Traceback (most recent call last)"

\* A slip that catches only what json.load raises.
main_except_decode_errors_only(exc) ==
  IF exc = "JSONDecodeError"
  THEN [exit_status |-> 0, stderr |-> <<MonitoringError>>]
  ELSE [exit_status |-> 1, stderr |-> <<Traceback>>]

\* except Exception as e: print(...); sys.exit(0).  An exception the clause
\* does not catch ends the interpreter with a traceback and status 1.
main_except(exc) ==
  IF exc \in ExceptionClasses
  THEN [exit_status |-> 0, stderr |-> <<MonitoringError>>]
  ELSE [exit_status |-> 1, stderr |-> <<Traceback>>]

NoCall(f) == [exc |-> "none", metrics |-> NoMetrics, file |-> f, stderr |-> <<>>]

\* The run's outcome: exit status, lines on stderr and stdout, the store file
\* after the run, the exception that reached the top level ("none": none
\* did), whether record_agent_invocation was called, with what, the
\* exception it raised ("none": it returned) and the metrics it returned.
Outcome(handled, error, stderr, called, agent_name, task_description, call) ==
  [exit_status |-> handled.exit_status, stderr |-> stderr \o handled.stderr,
   stdout |-> <<>>, error |-> error, file |-> call.file, called |-> called,
   agent_name |-> agent_name, task_description |-> task_description,
   exc |-> call.exc, metrics |-> call.metrics]

\* The script ran to its end.
Completed == [exit_status |-> 0, stderr |-> <<>>]

\* An exception raised before record_agent_invocation was reached.
Failed(exc, f) == Outcome(main_except(exc), exc, <<>>, FALSE, "unknown", <<>>, NoCall(f))

\* main after record_agent_invocation: the suggestions and the report, or
\* the except clause.
Report(agent_name, task_description, call) ==
  IF call.exc # "none"
  THEN Outcome(main_except(call.exc), call.exc, <<RecordingLine>>,
               TRUE, agent_name, task_description, call)
  ELSE Outcome(Completed, "none",
               <<RecordingLine>> \o call.stderr \o <<AgentCallsLine>>
                 \o suggest_optimizations(call.metrics, agent_name),
               TRUE, agent_name, task_description, call)

RecordTask(agent_name, task_description, f, today, timestamp, now, order) ==
  Report(agent_name, task_description,
         record_agent_invocation(f, agent_name, task_description,
                                 today, timestamp, now, order))

main(payload, f, today, timestamp, now, order) ==
  IF payload.json = "invalid" THEN Failed("JSONDecodeError", f)
  ELSE IF payload.json # "dict" THEN Failed("AttributeError", f)
  ELSE IF payload.tool_name # "Task"
  THEN Outcome(Completed, "none", <<>>, FALSE, "unknown", <<>>, NoCall(f))
  ELSE IF payload.tool_input = "list" THEN Failed("AttributeError", f)
  ELSE RecordTask(IF payload.tool_input = "dict" /\ payload.subagent_type # "absent"
                  THEN payload.subagent_type ELSE "unknown",
                  IF payload.tool_input = "dict" /\ payload.has_prompt
                  THEN payload.prompt ELSE <<>>,
                  f, today, timestamp, now, order)

(***************************************************************************)
(* State.                                                                  *)
(***************************************************************************)
VARIABLES
  clock,        \* local time, in hours since midnight of day 0
  file,         \* the store file ~/.claude/agent-metrics.json
  file0,        \* the store file as the first run found it
  runs,         \* process runs so far
  made,         \* per agent, the record_agent_invocation calls made so far
  last,         \* the last run: file before, clock readings, outcome
  pc,           \* concurrent processes: where each is in record_agent_invocation
  args,         \* concurrent processes: agent_name and task_description
  local,        \* concurrent processes: the metrics each holds
  observed,     \* concurrent processes: the kind of file each load found
  est_text,     \* the description handed to estimate_task_complexity
  est_result,   \* its result, 0 while not yet computed
  sug_metrics,  \* the metrics handed to suggest_optimizations
  sug_agent,    \* the agent name handed to it
  sug_out       \* its result, <<"pending">> while not yet computed

recorderVars == <<clock, file, file0, runs, made, last>>

concVars == <<pc, args, local, observed>>

estimateVars == <<est_text, est_result>>

suggestVars == <<sug_metrics, sug_agent, sug_out>>

vars == <<recorderVars, concVars, estimateVars, suggestVars>>

(***************************************************************************)
(* Inputs.                                                                 *)
(***************************************************************************)
ImplementFeature ==
  <<"i","m","p","l","e","m","e","n","t"," ","f","e","a","t","u","r","e">>

FixBug == <<"f","i","x"," ","b","u","g">>

Fill(n) == [i \in 1..n |-> "x"]

Descriptions == {ImplementFeature, FixBug}

Payloads ==
  { Payload("invalid", "absent", "absent", "absent", FALSE, <<>>),
    Payload("list", "absent", "absent", "absent", FALSE, <<>>),
    Payload("dict", "absent", "absent", "absent", FALSE, <<>>),
    Payload("dict", "Edit", "dict", "agentX", TRUE, FixBug),
    Payload("dict", "Task", "absent", "absent", FALSE, <<>>),
    Payload("dict", "Task", "list", "absent", FALSE, <<>>),
    Payload("dict", "Task", "dict", "absent", TRUE, FixBug) }
  \cup { Payload("dict", "Task", "dict", "agentX", TRUE, d) : d \in Descriptions }

\* Whether main reaches record_agent_invocation on the payload.
CallsRecorder(payload) ==
  payload.json = "dict" /\ payload.tool_name = "Task" /\ payload.tool_input # "list"

\* The clock's advance between the first and the second reading and between
\* the second and the third: none, one hour, or, when the process is
\* suspended or the clock is set forward after the timestamp is taken, more
\* than a day.
CallDelays == {<<0, 0>>, <<1, 0>>, <<0, 1>>, <<0, 25>>}

\* Well-formed stores a first run may find.  Every agents_used is a list, as
\* in every document json.dump can have written.
ZeroDay == [total_calls |-> 0, agents_used |-> PyList(<<>>), parallel_sessions |-> 0]

SeedDays == [d \in 0..1 |-> ZeroDay]

SeedAgent ==
  [total_calls |-> 1,
   recent_calls |-> <<[timestamp |-> isoformat(0), task |-> FixBug, complexity |-> 2]>>,
   avg_complexity |-> Number(2, 1)]

EmptyStore == PyDict(StoreKeys, EmptyDict, EmptyDict, isoformat(0))

DaysStore == PyDict(StoreKeys, EmptyDict, SeedDays, isoformat(0))

UsedStore ==
  PyDict(StoreKeys, [a \in {"unknown"} |-> SeedAgent],
         [SeedDays EXCEPT ![0] = [total_calls |-> 1,
                                  agents_used |-> PyList(<<"unknown">>),
                                  parallel_sessions |-> 0]],
         isoformat(0))

SeedStores == {EmptyStore, DaysStore, UsedStore}

\* Parseable documents of another shape: [], {} and {"agents": {}}.
MisshapenDocs ==
  { JsonList,
    PyDict({}, EmptyDict, EmptyDict, isoformat(0)),
    PyDict({"agents"}, EmptyDict, EmptyDict, isoformat(0)) }

InitialFiles ==
  {File("missing"), File("unreadable"), File("garbage")}
  \cup {JsonFile(d) : d \in MisshapenDocs \cup SeedStores}

NoRun ==
  [before |-> File("missing"), today |-> 0, timestamp |-> 0, now |-> 0,
   outcome |-> Outcome(Completed, "none", <<>>, FALSE, "unknown", <<>>,
                       NoCall(File("missing")))]

Steps == {23, 25}

Procs == {1, 2}

RecorderIdle ==
  /\ file0 = file
  /\ runs = 0
  /\ made = [a \in AgentNames |-> 0]
  /\ last = NoRun

ConcIdle ==
  /\ pc = [p \in Procs |-> "start"]
  /\ args = [p \in Procs |-> [agent_name |-> "unknown", task_description |-> <<>>]]
  /\ local = [p \in Procs |-> NoMetrics]
  /\ observed = [p \in Procs |-> "nothing"]

EstimateIdle ==
  /\ est_text = <<>>
  /\ est_result = 0

Pending == <<"pending">>

SuggestIdle ==
  /\ sug_metrics = EmptyStore
  /\ sug_agent = "unknown"
  /\ sug_out = Pending

(***************************************************************************)
(* Spec: runs of the process one after another, the clock advancing.       *)
(***************************************************************************)
Init ==
  /\ clock = 0
  /\ file \in InitialFiles
  /\ RecorderIdle
  /\ ConcIdle
  /\ EstimateIdle
  /\ SuggestIdle

\* Time passes between two runs.
Tick ==
  /\ runs < MaxRuns
  /\ \E d \in Steps :
        /\ clock + d <= MaxClock
        /\ clock' = clock + d
  /\ UNCHANGED <<file, file0, runs, made, last, concVars, estimateVars, suggestVars>>

\* The effect of a run on the state.
Ran(out, today, timestamp, now) ==
  /\ clock' = now
  /\ file' = out.file
  /\ made' = (IF out.called THEN [made EXCEPT ![out.agent_name] = @ + 1] ELSE made)
  /\ last' = [before |-> file, today |-> today, timestamp |-> timestamp, now |-> now,
              outcome |-> [out EXCEPT !.file = File("missing")]]

\* One run of the process.  record_agent_invocation reads the clock three
\* times, and the clock may advance between the readings; the order in which
\* a set iterates is the run's own.
Main ==
  /\ runs < MaxRuns
  /\ \E payload \in Payloads :
     \E d \in (IF CallsRecorder(payload) THEN CallDelays ELSE {<<0, 0>>}),
        order \in (IF CallsRecorder(payload) THEN Orders ELSE {CHOOSE o \in Orders : TRUE}) :
        /\ clock + d[1] + d[2] <= MaxClock
        /\ Ran(main(payload, file, clock, clock + d[1], clock + d[1] + d[2], order),
               clock, clock + d[1], clock + d[1] + d[2])
  /\ runs' = runs + 1
  /\ UNCHANGED <<file0, concVars, estimateVars, suggestVars>>

Next == Tick \/ Main

Spec == Init /\ [][Next]_vars

(***************************************************************************)
(* SpecConc: two processes run record_agent_invocation at the same time.   *)
(* Each statement that touches the file is a step of its own.              *)
(***************************************************************************)
InitConc ==
  /\ clock = 0
  /\ file \in {JsonFile(DaysStore), JsonFile(UsedStore)}
  /\ RecorderIdle
  /\ ConcIdle
  /\ EstimateIdle
  /\ SuggestIdle

\* metrics = load_metrics()
ConcLoad(p) ==
  /\ pc[p] = "start"
  /\ \E a \in AgentNames, t \in Descriptions :
        args' = [args EXCEPT ![p] = [agent_name |-> a, task_description |-> t]]
  /\ local' = [local EXCEPT ![p] = load_metrics(file, clock)]
  /\ observed' = [observed EXCEPT ![p] = file.kind]
  /\ pc' = [pc EXCEPT ![p] = "loaded"]
  /\ UNCHANGED <<recorderVars, estimateVars, suggestVars>>

\* the update of the loaded metrics, in memory
ConcUpdate(p) ==
  /\ pc[p] = "loaded"
  /\ \E order \in Orders :
        LET upd == UpdateMetrics(local[p], args[p].agent_name,
                                 args[p].task_description, clock, clock, clock, order)
        IN  IF upd.exc # "none"
            THEN /\ pc' = [pc EXCEPT ![p] = "raised"]
                 /\ local' = [local EXCEPT ![p] = NoMetrics]
            ELSE /\ pc' = [pc EXCEPT ![p] = "updated"]
                 /\ local' = [local EXCEPT ![p] = upd.metrics]
  /\ UNCHANGED <<recorderVars, args, observed, estimateVars, suggestVars>>

\* save_metrics: open(METRICS_FILE, 'w')
ConcOpen(p) ==
  /\ pc[p] = "updated"
  /\ LET opened == save_open(file)
     IN  /\ file' = opened.file
         /\ pc' = [pc EXCEPT ![p] = IF opened.exc = "none" THEN "opened" ELSE "done"]
  /\ UNCHANGED <<clock, file0, runs, made, last, args, local, observed,
                 estimateVars, suggestVars>>

\* save_metrics: json.dump and the close of the file.  The document goes to
\* the start of the file; what another process wrote there since this one
\* truncated it is overwritten, and a longer document's end stays behind.
ConcDump(p) ==
  /\ pc[p] = "opened"
  /\ \/ file' = save_dump(file, local[p]).file
     \/ /\ file.kind # "truncated"
        /\ file' = File("garbage")
  /\ pc' = [pc EXCEPT ![p] = "done"]
  /\ UNCHANGED <<clock, file0, runs, made, last, args, local, observed,
                 estimateVars, suggestVars>>

NextConc == \E p \in Procs : ConcLoad(p) \/ ConcUpdate(p) \/ ConcOpen(p) \/ ConcDump(p)

SpecConc == InitConc /\ [][NextConc]_vars

(***************************************************************************)
(* SpecComplexity: estimate_task_complexity applied to bounded texts.      *)
(***************************************************************************)
Vocabulary ==
  { <<"f","i","x">>, <<"F","i","X">>, <<"B","u","i","l","d">>,
    <<"i","m","p","l","e","m","e","n","t">>, <<"p","r","e">>,
    <<" ">>, <<"\n">> }

PadLengths == {0, 197, 200, 250}

RECURSIVE Concat(_)
Concat(pieces) == IF pieces = <<>> THEN <<>> ELSE Head(pieces) \o Concat(Tail(pieces))

PieceSeqs == UNION {[1..n -> Vocabulary] : n \in 0..MaxPieces}

Texts == {Concat(p) \o Fill(n) : p \in PieceSeqs, n \in PadLengths}

InitComplexity ==
  /\ est_text \in Texts
  /\ est_result = 0
  /\ clock = 0
  /\ file = File("missing")
  /\ RecorderIdle
  /\ ConcIdle
  /\ SuggestIdle

Estimate ==
  /\ est_result = 0
  /\ est_result' = estimate_task_complexity(est_text)
  /\ UNCHANGED <<est_text, recorderVars, concVars, suggestVars>>

NextComplexity == Estimate

SpecComplexity == InitComplexity /\ [][NextComplexity]_vars

(***************************************************************************)
(* SpecSuggest: suggest_optimizations applied to bounded stores.           *)
(***************************************************************************)
SuggestTasks == {<<>>, FixBug, ImplementFeature}

\* Calls of the agent that have left the 24-hour window.
OlderCalls == {0, 5, 10}

RecentCallSeqs ==
  UNION { [1..n -> {[timestamp |-> isoformat(0), task |-> t,
                     complexity |-> estimate_task_complexity(t)] : t \in SuggestTasks}]
          : n \in 0..MaxRecent }

StatsOf(recent_calls, older) ==
  [total_calls |-> Len(recent_calls) + older,
   recent_calls |-> recent_calls,
   avg_complexity |-> AverageComplexity(Zero, recent_calls)]

InitSuggest ==
  /\ \E recent_calls \in RecentCallSeqs, older \in OlderCalls :
        sug_metrics = PyDict(StoreKeys,
                             [a \in {"agentX"} |-> StatsOf(recent_calls, older)],
                             SeedDays, isoformat(0))
  /\ sug_agent \in AgentNames
  /\ sug_out = Pending
  /\ clock = 0
  /\ file = File("missing")
  /\ RecorderIdle
  /\ ConcIdle
  /\ EstimateIdle

Suggest ==
  /\ sug_out = Pending
  /\ sug_out' = suggest_optimizations(sug_metrics, sug_agent)
  /\ UNCHANGED <<sug_metrics, sug_agent, recorderVars, concVars, estimateVars>>

NextSuggest == Suggest

SpecSuggest == InitSuggest /\ [][NextSuggest]_vars

(***************************************************************************)
(* Properties.                                                             *)
(***************************************************************************)
\* The last run called record_agent_invocation.
LastCalled == runs > 0 /\ last.outcome.called

\* ... and the call returned.
LastReturned == LastCalled /\ last.outcome.exc = "none"

LastAgent == last.outcome.agent_name

LastTask == last.outcome.task_description

\* The metrics the last call loaded, and the metrics it returned.
Before == load_metrics(last.before, last.today)

After == last.outcome.metrics

RecentBefore ==
  IF LastAgent \in DOMAIN Before.agents
  THEN Before.agents[LastAgent].recent_calls
  ELSE <<>>

\* total_calls of an agent in a store file; 0 where the file holds none.
PersistedTotal(f, a) ==
  IF /\ f.kind = "json"
     /\ f.doc.pytype = "dict"
     /\ "agents" \in f.doc.keys
     /\ a \in DOMAIN f.doc.agents
  THEN f.doc.agents[a].total_calls
  ELSE 0

\* C1: recordInvocation("agentX", "implement feature"), called once with no
\* metrics file, returns a store with agents["agentX"].totalCalls = 1 and
\* avgComplexity = 3, and that store is the one persisted.
C1_FirstCallOnEmptyStore ==
  ( /\ runs = 1
    /\ file0.kind = "missing"
    /\ last.outcome.called
    /\ LastAgent = "agentX"
    /\ LastTask = ImplementFeature )
  => /\ last.outcome.exc = "none"
     /\ "agentX" \in DOMAIN After.agents
     /\ After.agents["agentX"].total_calls = 1
     /\ After.agents["agentX"].avg_complexity = Number(3, 1)
     /\ file = JsonFile(After)

\* C2: whatever the store file holds, recordInvocation raises nothing and
\* returns a usable store with the updated entry of the agent.
C2_NeverPropagates ==
  LastCalled
  => /\ last.outcome.exc = "none"
     /\ After.pytype = "dict"
     /\ LastAgent \in DOMAIN After.agents
     /\ After.agents[LastAgent].total_calls >= 1

\* C3: every run of the process ends with exit status 0, whatever the
\* payload and the store file; a failure inside shows only as a diagnostic
\* line on stderr, and stdout stays unused.
C3_AlwaysExitsZero ==
  runs > 0
  => /\ last.outcome.exit_status = 0
     /\ last.outcome.stdout = <<>>
     /\ Traceback \notin Range(last.outcome.stderr)
     /\ last.outcome.error # "none"
          => last.outcome.stderr[Len(last.outcome.stderr)] = MonitoringError

\* A run on a Task event that found a store file that is not JSON: the
\* recorder failed inside, and the run ended with status 0.
C3_Witness ==
  /\ LastCalled
  /\ last.before.kind = "garbage"
  /\ last.outcome.error = "TypeError"
  /\ last.outcome.exit_status = 0

\* C4: with one run after another, the persisted totalCalls of every agent
\* equals the number of recordInvocation calls made for it so far (on top
\* of what the file held at first).
C4_TotalCallsCountsEveryCall ==
  \A a \in AgentNames : PersistedTotal(file, a) = PersistedTotal(file0, a) + made[a]

\* C5: after a call that returned, with now the reading of the clock the
\* cutoff is taken from, recentCalls holds exactly the records stored before
\* and the new one whose timestamp is later than now - 24h, in insertion
\* order; and a second call of an agent, 25 hours after its first and itself
\* taking less than a day, leaves only the second call's record while
\* totalCalls is 2.
C5_NewRecord == CallRecord(last.timestamp, LastTask)

C5_InWindow(call) == fromisoformat(call.timestamp) > last.now - WINDOW_HOURS

C5_SecondCallAfter25Hours ==
  /\ LastReturned
  /\ PersistedTotal(file0, LastAgent) = 0
  /\ made[LastAgent] = 2
  /\ PersistedTotal(last.before, LastAgent) = 1
  /\ Len(RecentBefore) = 1
  /\ last.timestamp - fromisoformat(RecentBefore[1].timestamp) = 25
  /\ last.now - last.timestamp < WINDOW_HOURS

C6_AverageMatchesRecentCalls ==
  LastReturned
  => LET stats == After.agents[LastAgent]
         n == Len(stats.recent_calls)
     IN  IF n = 0
         THEN stats.avg_complexity = Zero
         ELSE /\ stats.avg_complexity.den > 0
              /\ stats.avg_complexity.num * n
                   = stats.avg_complexity.den * SumSeq(Complexities(stats.recent_calls))

\* C10: every call ends with dailyStats[today] present, its totalCalls one
\* more than before (1 for a new entry), and agentsUsed a list holding the
\* agent once with every agent it held before, each once.
C10_TotalBefore ==
  IF /\ Before.pytype = "dict"
     /\ strftime_date(last.today) \in DOMAIN Before.daily_stats
  THEN Before.daily_stats[strftime_date(last.today)].total_calls
  ELSE 0

C10_UsedBefore ==
  IF /\ Before.pytype = "dict"
     /\ strftime_date(last.today) \in DOMAIN Before.daily_stats
  THEN Range(Before.daily_stats[strftime_date(last.today)].agents_used.items)
  ELSE {}

C10_DailyStatsUpdated ==
  LastCalled
  => /\ last.outcome.exc = "none"
     /\ strftime_date(last.today) \in DOMAIN After.daily_stats
     /\ LET daily == After.daily_stats[strftime_date(last.today)]
        IN  /\ daily.total_calls = C10_TotalBefore + 1
            /\ daily.agents_used.pytype = "list"
            /\ Range(daily.agents_used.items) = C10_UsedBefore \cup {LastAgent}
            /\ Len(daily.agents_used.items) = Cardinality(Range(daily.agents_used.items))
            /\ file = JsonFile(After)

\* C9: a load that interleaves with another process's save never finds the
\* file truncated or partly written.
C9_LoadNeverSeesPartialFile == \A p \in Procs : observed[p] # "truncated"

\* C7: estimateComplexity returns an integer in 1..5, at least the weight of
\* every keyword that is a whitespace-separated token of the text in any
\* case, and exactly min(5, max(1, highest such weight) + (1 if the text is
\* longer than 200 characters)); "" gives 1, 250 characters without a
\* keyword give 2.
C7_IsToken(text, i, word) ==
  /\ i + Len(word) - 1 <= Len(text)
  /\ \A k \in 1..Len(word) : LowerChar(text[i + k - 1]) = word[k]
  /\ i = 1 \/ text[i - 1] \in Whitespace
  /\ i + Len(word) - 1 = Len(text) \/ text[i + Len(word)] \in Whitespace

C7_HasToken(text, word) == \E i \in 1..Len(text) : C7_IsToken(text, i, word)

C7_Weights(text) ==
  {k.weight : k \in {kw \in complexity_keywords : C7_HasToken(text, kw.word)}}

C7_Highest(weights) ==
  IF weights = {} THEN 1
  ELSE CHOOSE w \in weights : \A v \in weights : v <= w

C7_Expected(text, weights) ==
  Min(5, C7_Highest(weights) + (IF Len(text) > 200 THEN 1 ELSE 0))

C7_ComplexityFormula ==
  est_result # 0
  => LET weights == C7_Weights(est_text)
     IN  /\ est_result \in 1..5
         /\ \A w \in weights : est_result >= w
         /\ est_result = C7_Expected(est_text, weights)
         /\ est_text = <<>> => est_result = 1
         /\ (Len(est_text) = 250 /\ weights = {}) => est_result = 2

\* A text longer than 200 characters with the keyword of weight 4 written
\* with a capital: the result is 5.
C7_Witness ==
  /\ est_result = 5
  /\ Len(est_text) > 200
  /\ C7_HasToken(est_text, <<"b","u","i","l","d">>)

\* C8 as stated: the repetitive-tasks suggestion is emitted whenever the last
\* 5 recentCalls (all of them when there are fewer) hold fewer than 3
\* distinct task strings, after the combine-simple-tasks suggestion when
\* both are emitted.
C8_Recent ==
  IF sug_agent \in DOMAIN sug_metrics.agents
  THEN sug_metrics.agents[sug_agent].recent_calls
  ELSE <<>>

C8_TailTasks ==
  {C8_Recent[i].task : i \in {j \in 1..Len(C8_Recent) : j > Len(C8_Recent) - 5}}

C8_CombineFirst ==
  ( /\ CombineSimpleTasks \in Range(sug_out)
    /\ RepetitiveTasks \in Range(sug_out) )
  => sug_out = <<CombineSimpleTasks, RepetitiveTasks>>

C8_RepetitiveWheneverFewTasks ==
  sug_out # Pending
  => /\ Cardinality(C8_TailTasks) < 3 => RepetitiveTasks \in Range(sug_out)
     /\ C8_CombineFirst

\* C8 as amended: the repetitive-tasks suggestion is emitted exactly when the
\* agent has more than 5 recentCalls and the last 5 hold fewer than 3
\* distinct task strings; the combine-simple-tasks suggestion exactly when
\* totalCalls > 10 and avgComplexity < 2; and it comes first when both are
\* emitted.
C8_RepetitiveFromSixCalls ==
  sug_out # Pending
  => /\ RepetitiveTasks \in Range(sug_out)
          <=> (Len(C8_Recent) > 5 /\ Cardinality(C8_TailTasks) < 3)
     /\ CombineSimpleTasks \in Range(sug_out)
          <=> /\ sug_agent \in DOMAIN sug_metrics.agents
              /\ sug_metrics.agents[sug_agent].total_calls > 10
              /\ sug_metrics.agents[sug_agent].avg_complexity.num
                   < 2 * sug_metrics.agents[sug_agent].avg_complexity.den
     /\ C8_CombineFirst

\* Both suggestions emitted.
C8_Witness == sug_out = <<CombineSimpleTasks, RepetitiveTasks>>

=============================================================================
